---- MODULE Spec2Model ----
(***************************************************************************)
(* VectorCode: the `update` subcommand (subcommands/update.py) run by       *)
(* async_main (main.py) against a collection obtained with get_collection  *)
(* (common.py).  One behaviour is one invocation of `vectorcode update`:   *)
(* the main coroutine, the per-file tasks it creates on the event loop,    *)
(* the vector store and the file system (which other processes change).    *)
(***************************************************************************)
EXTENDS Integers, Naturals, FiniteSets, Sequences, TLC

\* ------------------------------------------------------------------ bounds
MaxPaths == 2       \* distinct file paths that occur in the store
MaxChunks == 2      \* chunk records that share one path
MaxCpu == 2         \* largest os.cpu_count() considered
MaxDepth == 2       \* components of a path given to expand_path
MaxTimeout == 3     \* largest timeout of wait_for_server, in ticks of 0.1 s
MaxGetTicks == 2    \* longest a heartbeat request takes, in ticks
MaxSleepTicks == 2  \* longest asyncio.sleep(0.1) takes, in ticks
MaxStart == 1       \* latest loop time at which wait_for_server is entered
MaxArgs == 2        \* paths given to expand_globs
MaxCmds == 2        \* `vectorcode` commands the LSP server receives

\* --------------------------------------------------------------- constants
EmptyPath == 0      \* the "" that meta.get("path", "") yields without a path
NoCpu == 0          \* os.cpu_count() returning None
NoTask == 0         \* collection_lock not held

Paths == 1 .. MaxPaths
\* Store keys: one per path, and NoPathKey for records without a "path" field.
NoPathKey == 0
StoreKeys == Paths \cup {NoPathKey}
CpuCounts == {NoCpu} \cup (1 .. MaxCpu)

\* Identity of this run and configuration (socket.gethostname(), $USER, Config).
ThisHost == "thishost"
ThisUser == "me"
ConfigEf == "efA"
ConfigEp == "epA"
NoCollection == [exists |-> FALSE]

VARIABLES
    disk,            \* stored paths at which a regular file exists now
    store,           \* store keys under which the collection holds records
    collection,      \* the collection's metadata in the store, or NoCollection
    created,         \* a collection was created by this run
    mainPc,          \* "probe", "start_failed", "update", "wait_server", "returned"
    spawned,         \* server_process is not None
    return_val,      \* async_main's return_val
    updPc,           \* update(): position, or how it ended
    cancelled,       \* CancelledError was observed by update()
    metaRead,        \* collection.get(include=[metadatas]) was called
    files_gen,       \* the metadata records files_gen has still to yield
    files,           \* update(): files
    orphanes,        \* update(): orphanes
    absentAtCheck,   \* path strings whose os.path.isfile check returned False
    stats,           \* update(): stats
    statsShown,      \* number of show_stats calls
    cpu,             \* what os.cpu_count() returned
    semaphore,       \* free slots of the asyncio.Semaphore
    collection_lock, \* task holding collection_lock, or NoTask
    tasks,           \* tasks created by update (named by their file)
    tpc,             \* Paths -> position of the task's chunked_add
    upserts,         \* paths whose upsert the store committed in this run
    deleteCalls,     \* number of collection.delete calls issued
    deleteArg        \* the paths passed to collection.delete

\* The functions of common.py called on their own.
VARIABLES
    gcResult,        \* get_collection(..., True): "ok" or the exception raised
    efVerdict,       \* what verify_ef returned
    efWarned,        \* verify_ef printed the different-configurations warning
    efName,          \* configs.embedding_function given to get_embedding_function
    efParams,        \* configs.embedding_params given to get_embedding_function
    efBuilt          \* what get_embedding_function returned or raised

\* get_collection_name called on two paths.
VARIABLES
    full_path,       \* the argument of each of the two calls
    collection_id    \* what each call returned

\* wait_for_server.
VARIABLES
    wfsPc,           \* "idle", "get", "check", "sleep", "returned", "TimeoutError"
    now,             \* asyncio.get_event_loop().time(), in ticks
    start_time,      \* wait_for_server: start_time
    timeout,         \* wait_for_server: timeout, in ticks
    status           \* outcome of the last heartbeat request

\* expand_globs.
VARIABLES
    egPc,            \* "idle", "loop", "branch", "returned"
    recursive,       \* expand_globs: recursive
    pathsGiven,      \* expand_globs: paths, as the caller passed it
    dirs,            \* the directories of the file tree
    stack,           \* expand_globs: stack
    curr,            \* expand_globs: curr
    result           \* expand_globs: result

\* get_collection under each setting of the environment.
VARIABLES
    envUSER,         \* os.environ.get("USER"), Unset when there is none
    envUSERNAME,     \* os.environ.get("USERNAME"), Unset when there is none
    ownResult,       \* get_collection(..., True): "ok" or the exception raised
    nameUser         \* the user name hashed into the collection id

\* Config.merge_from.
VARIABLES
    self,            \* merge_from: the receiver (the config of the file)
    other,           \* merge_from: the argument (the command-line config)
    final_config     \* merge_from: the Config returned, NoConfig before

\* async_main from its first statement, with any subcommand.
VARIABLES
    cliPc,           \* position of async_main
    project_dir,     \* find_project_config_dir found a directory
    projectFile,     \* <project_root>/.vectorcode/config.json
    globalFile,      \* ~/.config/vectorcode/config.json
    action,          \* cli_args.action
    configSource,    \* the file final_configs was loaded from
    ioError,         \* Config.import_from raised IOError
    probed,          \* try_server was called
    process,         \* the database server process async_main spawned
    server_process,  \* async_main: server_process is not None
    subcommandRan,   \* a subcommand was awaited
    cliReturn        \* what async_main returned, or "raised"

\* The LSP server (lsp_main.py) and the commands it is executing.
VARIABLES
    cached_project_configs,  \* project root -> the cached Config, or None
    cached_clients,          \* (host, port) -> the cached client, or None
    cached_collections,      \* project root -> the cached collection, or None
    DEFAULT_PROJECT_ROOT,    \* lsp_main.DEFAULT_PROJECT_ROOT
    localConfigs,            \* roots that hold a .vectorcode/config.json
    globalConfig,            \* the global config file exists
    serverOf,                \* project root -> the (host, port) of its config
    cmdPc,                   \* command -> position of its execute_command
    cmdRoot,                 \* command -> parsed_args.project_root
    configLoads,             \* project root -> calls of load_config_file
    clientsCreated,          \* (host, port) -> clients get_client returned
    collectionsObtained      \* project root -> get_collection calls returned

commonVars == << gcResult, efVerdict, efWarned, efName, efParams, efBuilt >>
nameVars == << full_path, collection_id >>
waitVars == << wfsPc, now, start_time, timeout, status >>
globVars == << egPc, recursive, pathsGiven, dirs, stack, curr, result >>
ownerVars == << envUSER, envUSERNAME, ownResult, nameUser >>
mergeVars == << self, other, final_config >>
cliVars == << cliPc, project_dir, projectFile, globalFile, action, configSource,
             ioError, probed, process, server_process, subcommandRan,
             cliReturn >>
lspVars == << cached_project_configs, cached_clients, cached_collections,
             DEFAULT_PROJECT_ROOT, localConfigs, globalConfig, serverOf, cmdPc,
             cmdRoot, configLoads, clientsCreated, collectionsObtained >>
extVars == << ownerVars, mergeVars, cliVars, lspVars >>
libVars == << commonVars, nameVars, waitVars, globVars, extVars >>

vars == << disk, store, collection, created, mainPc, spawned, return_val, updPc,
           cancelled, metaRead, files_gen, files, orphanes, absentAtCheck,
           stats, statsShown, cpu, semaphore, collection_lock, tasks, tpc,
           upserts, deleteCalls, deleteArg, libVars >>

envVars == << disk, store, collection, created >>
mainVars == << mainPc, spawned, return_val >>
diffVars == << metaRead, files_gen, files, orphanes, absentAtCheck >>
taskVars == << cpu, semaphore, collection_lock, tasks, tpc, upserts >>
pruneVars == << deleteCalls, deleteArg >>

\* ------------------------------------------------------------ pure helpers

\* A collection's metadata as get_collection stamps it (common.py 155-161).
CollectionMeta(host, user, by, ef, ep) ==
    [exists |-> TRUE, hostname |-> host, username |-> user,
     createdBy |-> by, embedding_function |-> ef, embedding_params |-> ep]

\* The owner check of get_collection (common.py 170-175).
OwnerMatches(meta) ==
    /\ meta.hostname = ThisHost
    /\ meta.username \in {ThisUser, "DEFAULT_USER"}
    /\ meta.createdBy = "VectorCode"

\* get_collection(client, configs, make_if_missing): what it raises or returns,
\* and the collection the store holds afterwards.  clientFault is an IndexError
\* raised by the client call itself.
GetCollection(coll, make_if_missing, clientFault) ==
    IF clientFault
    THEN [result |-> "IndexError", coll |-> coll, created |-> FALSE]
    ELSE IF ~make_if_missing
    THEN IF coll.exists
         THEN [result |-> "ok", coll |-> coll, created |-> FALSE]
         ELSE [result |-> "ValueError", coll |-> coll, created |-> FALSE]
    ELSE LET got == IF coll.exists THEN coll
                    ELSE CollectionMeta(ThisHost, ThisUser, "VectorCode",
                                        ConfigEf, "None")
         IN  [result |-> IF OwnerMatches(got) THEN "ok" ELSE "IndexError",
              coll |-> got, created |-> ~coll.exists]

\* A verify_ef that also refuses recorded parameters that differ.
VerifyEfStrict(meta) ==
    /\ meta.embedding_function \in {"None", ConfigEf}
    /\ meta.embedding_params \in {"None", ConfigEp}

\* verify_ef(collection, configs): a recorded embedding function of another
\* name refuses; recorded parameters that differ only warn.
VerifyEf(meta) ==
    IF meta.embedding_function # "None" /\ meta.embedding_function # ConfigEf
    THEN FALSE
    ELSE IF meta.embedding_params # "None" /\ meta.embedding_params # ConfigEp
    THEN TRUE
    ELSE TRUE

\* verify_ef prints "embedded with a different set of configurations" to
\* stderr: the elif branch of common.py 191-196.
VerifyEfWarns(meta) ==
    /\ ~(meta.embedding_function # "None" /\ meta.embedding_function # ConfigEf)
    /\ meta.embedding_params # "None"
    /\ meta.embedding_params # ConfigEp

\* chromadb.utils.embedding_functions: the embedding function classes it
\* defines, and every attribute a lookup by name finds in the module (a
\* module always has __name__, a str).
EfClasses == {"SentenceTransformerEmbeddingFunction", "OpenAIEmbeddingFunction"}
ModuleAttrs == EfClasses \cup {"__name__"}
DefaultEf == "SentenceTransformerEmbeddingFunction"

\* get_embedding_function has not been called.
NoEf == [called |-> FALSE, raised |-> "none", ef |-> "none", params |-> "none",
         warned |-> FALSE]

\* get_embedding_function(configs): getattr(embedding_functions, name) raises
\* AttributeError for a name the module lacks, which is caught; what it
\* finds is called with the configured parameters, and calling a str raises
\* TypeError, which is not caught.
GetEmbeddingFunction(name, params) ==
    IF name \notin ModuleAttrs
    THEN [called |-> TRUE, raised |-> "none", ef |-> DefaultEf,
          params |-> "default", warned |-> TRUE]
    ELSE IF name \notin EfClasses
    THEN [called |-> TRUE, raised |-> "TypeError", ef |-> "none",
          params |-> "none", warned |-> FALSE]
    ELSE [called |-> TRUE, raised |-> "none", ef |-> name, params |-> params,
          warned |-> FALSE]

\* One metadata record of a chunk stored under key k.
MetaRecord(k) == IF k = NoPathKey THEN [chunk |-> "c"] ELSE [path |-> k]

\* str(meta.get("path", "")).
MetaPath(meta) == IF "path" \in DOMAIN meta THEN meta.path ELSE EmptyPath

\* os.path.isfile(file).
IsFile(file, d) == file \in d

RECURSIVE Repeat(_, _)
Repeat(x, n) == IF n = 0 THEN << >> ELSE << x >> \o Repeat(x, n - 1)

RECURSIVE MetasFrom(_, _, _)
MetasFrom(s, chunks, k) ==
    IF k > MaxPaths THEN << >>
    ELSE (IF k \in s THEN Repeat(MetaRecord(k), chunks[k]) ELSE << >>)
         \o MetasFrom(s, chunks, k + 1)

\* collection.get(include=[metadatas])["metadatas"]: one record per chunk,
\* chunks[k] of them under key k.
CollectionGet(s, chunks) == MetasFrom(s, chunks, 0)

\* collection.delete(where={"path": {"$in": paths}}).
CollectionDelete(s, paths) ==
    {k \in s : ~("path" \in DOMAIN MetaRecord(k) /\ MetaRecord(k).path \in paths)}

\* A semaphore with a slot for every task: no bound at all.
SemaphoreSlotPerTask(c) == MaxPaths

\* asyncio.Semaphore(os.cpu_count() or 1).
SemaphoreValue(c) == IF c # NoCpu THEN c ELSE 1

\* An update() whose CancelledError handler returns 0.
UpdateReturnAbortZero(pc) == IF pc \in {"ret_collision", "ret_missing", "ret_ef"} THEN 1 ELSE 0

\* The return value of update() where it returned.
UpdateReturn(pc) ==
    CASE pc = "ret_collision" -> 1
      [] pc = "ret_missing" -> 1
      [] pc = "ret_ef" -> 1
      [] pc = "ret_nometas" -> 0
      [] pc = "ret_abort" -> 1
      [] pc = "ret_ok" -> 0

UpdReturned == updPc \in {"ret_collision", "ret_missing", "ret_ef",
                          "ret_nometas", "ret_abort", "ret_ok"}
UpdEnded == UpdReturned \/ updPc = "raised"

\* ------------------------------------------------------------------- Init

InitCollections ==
    {NoCollection}
    \cup {CollectionMeta(ThisHost, ThisUser, "VectorCode", ef, "None") :
            ef \in {ConfigEf, "efB"}}
    \cup {CollectionMeta("otherhost", ThisUser, "VectorCode", ConfigEf, "None")}

\* ---------------------------------------------------------------- paths

\* A path is relative or absolute and has components.  "~" is the home
\* directory where expanduser replaces it, "$P" a reference to the
\* environment variable P, "." and ".." the directory itself and its parent.
Components == {"a", ".", "..", "~", "$P"}
PartsUpTo(n) == UNION {[1 .. k -> Components] : k \in 0 .. n}
PathInputs == [abs : BOOLEAN, parts : PartsUpTo(MaxDepth)]

\* The environment of the process: $P, the home directory, the working
\* directory.
EnvP == "a"
Home == << "h" >>
Cwd == << "a" >>

\* os.path.expandvars(path).
ExpandVars(path) ==
    [abs |-> path.abs,
     parts |-> [i \in DOMAIN path.parts |->
                  IF path.parts[i] = "$P" THEN EnvP ELSE path.parts[i]]]

\* os.path.expanduser(path): only a leading "~" is replaced.
ExpandUser(path) ==
    IF ~path.abs /\ path.parts # << >> /\ Head(path.parts) = "~"
    THEN [abs |-> TRUE, parts |-> Home \o Tail(path.parts)]
    ELSE path

\* os.path.normpath on the components of an absolute path: "." is dropped,
\* ".." removes the component before it and is dropped at the root.
RECURSIVE NormParts(_, _)
NormParts(parts, acc) ==
    IF parts = << >> THEN acc
    ELSE LET c == Head(parts)
         IN  IF c = "." THEN NormParts(Tail(parts), acc)
             ELSE IF c = ".."
             THEN NormParts(Tail(parts),
                            IF acc = << >> THEN acc
                            ELSE SubSeq(acc, 1, Len(acc) - 1))
             ELSE NormParts(Tail(parts), Append(acc, c))

\* os.path.abspath(path): normpath(join(os.getcwd(), path)).
AbsPath(path) ==
    [abs |-> TRUE,
     parts |-> NormParts((IF path.abs THEN << >> ELSE Cwd) \o path.parts, << >>)]

\* cli_utils.expand_path(path, absolute).
ExpandPath(path, absolute) ==
    LET expanded == ExpandUser(ExpandVars(path))
    IN  IF absolute THEN AbsPath(expanded) ELSE expanded

\* hashlib.sha256(...).hexdigest(): 64 hexadecimal characters that stand for
\* the message hashed (the hash is taken to be injective), and a prefix of it.
HexDigestLen == 64
CollectionIdLen == 63
Sha256Hex(message) == [of |-> message, len |-> HexDigestLen]
Prefix(digest, n) ==
    [of |-> digest.of, len |-> IF n < digest.len THEN n ELSE digest.len]

\* A get_collection_name that hashes the path as it was given.
GetCollectionNameAsGiven(path) ==
    Prefix(Sha256Hex(<< ThisUser, ThisHost, path >>), CollectionIdLen)

\* common.get_collection_name(full_path): the first 63 characters of the
\* digest of "{user}@{hostname}:{absolute path}".
GetCollectionName(path) ==
    Prefix(Sha256Hex(<< ThisUser, ThisHost, ExpandPath(path, TRUE) >>),
           CollectionIdLen)

\* get_collection_name has not returned.
NoId == [of |-> << >>, len |-> 0]

\* No function of common.py has been called on its own.
CommonIdle ==
    /\ gcResult = "none"
    /\ efVerdict = "none"
    /\ efWarned = FALSE
    /\ efName = "none"
    /\ efParams = "none"
    /\ efBuilt = NoEf

\* get_collection_name is not called.
NameIdle ==
    /\ full_path = << >>
    /\ collection_id = << >>

\* wait_for_server is not called.
WaitIdle ==
    /\ wfsPc = "idle"
    /\ now = 0
    /\ start_time = 0
    /\ timeout = 0
    /\ status = "none"

\* No path: curr before the first stack.pop().
NoPath == [abs |-> FALSE, parts |-> << >>]

\* expand_globs is not called.
GlobIdle ==
    /\ egPc = "idle"
    /\ recursive = FALSE
    /\ pathsGiven = << >>
    /\ dirs = {}
    /\ stack = << >>
    /\ curr = NoPath
    /\ result = {}

\* What os.environ.get(key) returns for a variable that is not set: None.
Unset == "<None>"

\* get_collection is not called under an environment of its own.
OwnerIdle ==
    /\ envUSER = Unset
    /\ envUSERNAME = Unset
    /\ ownResult = "none"
    /\ nameUser = "none"

\* No Config.
NoConfig == [none |-> TRUE]

\* merge_from is not called.
MergeIdle ==
    /\ self = NoConfig
    /\ other = NoConfig
    /\ final_config = NoConfig

\* No config file at a path.
NoFile == [exists |-> FALSE, db_path |-> "None"]

\* async_main is not run from its first statement.
CliIdle ==
    /\ cliPc = "idle"
    /\ project_dir = FALSE
    /\ projectFile = NoFile
    /\ globalFile = NoFile
    /\ action = "none"
    /\ configSource = "none"
    /\ ioError = FALSE
    /\ probed = FALSE
    /\ process = "none"
    /\ server_process = FALSE
    /\ subcommandRan = FALSE
    /\ cliReturn = "none"

\* The LSP server is not running.
LspIdle ==
    /\ cached_project_configs = << >>
    /\ cached_clients = << >>
    /\ cached_collections = << >>
    /\ DEFAULT_PROJECT_ROOT = "None"
    /\ localConfigs = {}
    /\ globalConfig = FALSE
    /\ serverOf = << >>
    /\ cmdPc = << >>
    /\ cmdRoot = << >>
    /\ configLoads = << >>
    /\ clientsCreated = << >>
    /\ collectionsObtained = << >>

ExtIdle == OwnerIdle /\ MergeIdle /\ CliIdle /\ LspIdle

LibIdle == CommonIdle /\ NameIdle /\ WaitIdle /\ GlobIdle /\ ExtIdle

\* update() has not been entered.
UpdateIdle ==
    /\ created = FALSE
    /\ mainPc = "probe"
    /\ spawned = FALSE
    /\ return_val = 0
    /\ updPc = "get_collection"
    /\ cancelled = FALSE
    /\ metaRead = FALSE
    /\ files_gen = << >>
    /\ files = {}
    /\ orphanes = {}
    /\ absentAtCheck = {}
    /\ stats = [add |-> 0, update |-> 0, removed |-> 0]
    /\ statsShown = 0
    /\ cpu = NoCpu
    /\ semaphore = 0
    /\ collection_lock = NoTask
    /\ tasks = {}
    /\ tpc = [p \in Paths |-> "none"]
    /\ upserts = {}
    /\ deleteCalls = 0
    /\ deleteArg = {}

Init ==
    /\ collection \in InitCollections
    /\ store \in SUBSET StoreKeys
    /\ ~collection.exists => store = {}
    /\ disk \in SUBSET (store \cap Paths)
    /\ UpdateIdle
    /\ LibIdle

\* A loop that stops at the first completed task.
AwaitLoopFirstDone(ts, pcs) == ts = {} \/ \E t \in ts : pcs[t] = "done"

\* update.py 68-70: the loop over asyncio.as_completed(tasks) has awaited
\* every task without an exception.
AwaitLoopDone(ts, pcs) == \A t \in ts : pcs[t] = "done"

\* ------------------------------------------------------------ environment

\* Where the file at path p matters to update(): the Diffing loop is about
\* to call os.path.isfile(p), or the await loop has ended and the orphans
\* collected from the paths read are about to be deleted.
DiskObserved(p) ==
    \/ /\ updPc = "diffing"
       /\ files_gen # << >>
       /\ MetaPath(Head(files_gen)) = p
    \/ /\ updPc = "awaiting"
       /\ AwaitLoopDone(tasks, tpc)
       /\ p \in files \cup orphanes

\* Another process creates or removes the file at path p.  Other processes
\* change the disk at any time; a change is taken where update() is about to
\* look at that path, where one made earlier shows all the same.
FsChange(p) ==
    /\ DiskObserved(p)
    /\ disk' = IF p \in disk THEN disk \ {p} ELSE disk \cup {p}
    /\ UNCHANGED << libVars, store, collection, created, mainVars, updPc, cancelled,
                    diffVars, stats, statsShown, taskVars, pruneVars >>

\* ------------------------------------------------------------- async_main

\* try_server: when the configured server does not answer, start_server
\* spawns one and server_process is set (main.py 67-73); when the spawned
\* server does not become ready, start_server raises and so does async_main.
MainProbe ==
    /\ mainPc = "probe"
    /\ \/ /\ \E reachable \in BOOLEAN : spawned' = ~reachable
          /\ mainPc' = "update"
       \/ /\ mainPc' = "start_failed"
          /\ UNCHANGED spawned
    /\ UNCHANGED << libVars, envVars, return_val, updPc, cancelled, diffVars, stats,
                    statsShown, taskVars, pruneVars >>

\* An except block that only prints the traceback.
MainReturnValKeepsZero(pc) == IF pc = "raised" THEN 0 ELSE UpdateReturn(pc)

\* return_val after `await update(final_configs)` returned or raised
\* (main.py 91-97).
MainReturnVal(pc) == IF pc = "raised" THEN 1 ELSE UpdateReturn(pc)

\* asyncio.run(async_main()) ends: tasks still pending on the loop are
\* cancelled (main.py 105-106).
CancelAll(pcs) ==
    [p \in Paths |->
        IF pcs[p] \in {"waiting", "admitted", "writing"} THEN "cancelled"
        ELSE pcs[p]]

\* update() has returned or raised: the except and finally blocks.  With a
\* spawned server the coroutine suspends in server_process.wait(); without
\* one it returns at once.
MainAfterUpdate ==
    /\ mainPc = "update"
    /\ UpdEnded
    /\ return_val' = MainReturnVal(updPc)
    /\ IF spawned
       THEN /\ mainPc' = "wait_server"
            /\ UNCHANGED << tpc, collection_lock >>
       ELSE /\ mainPc' = "returned"
            /\ tpc' = CancelAll(tpc)
            /\ collection_lock' = NoTask
    /\ UNCHANGED << libVars, envVars, spawned, updPc, cancelled, diffVars, stats,
                    statsShown, cpu, semaphore, tasks, upserts, pruneVars >>

\* server_process.wait() returned; async_main returns return_val.
MainReturn ==
    /\ mainPc = "wait_server"
    /\ mainPc' = "returned"
    /\ tpc' = CancelAll(tpc)
    /\ collection_lock' = NoTask
    /\ UNCHANGED << libVars, envVars, spawned, return_val, updPc, cancelled, diffVars,
                    stats, statsShown, cpu, semaphore, tasks, upserts,
                    pruneVars >>

\* ----------------------------------------------------------------- update

\* An update() that asks get_collection to create the collection.
UpdateMakeIfMissingTrue == TRUE

\* update() calls get_collection(client, configs, False).
UpdateMakeIfMissing == FALSE

\* update.py 16-27.
UpdGetCollection ==
    /\ mainPc = "update"
    /\ updPc = "get_collection"
    /\ \E clientFault \in BOOLEAN :
         LET got == GetCollection(collection, UpdateMakeIfMissing, clientFault)
         IN  /\ collection' = got.coll
             /\ created' = (created \/ got.created)
             /\ updPc' = CASE got.result = "IndexError" -> "ret_collision"
                           [] got.result = "ValueError" -> "ret_missing"
                           [] got.result = "ok" -> "verify_ef"
    /\ UNCHANGED << libVars, disk, store, mainVars, cancelled, diffVars, stats,
                    statsShown, taskVars, pruneVars >>

\* update.py 28-29.
UpdVerifyEf ==
    /\ updPc = "verify_ef"
    /\ updPc' = IF VerifyEf(collection) THEN "read" ELSE "ret_ef"
    /\ UNCHANGED << libVars, envVars, mainVars, cancelled, diffVars, stats, statsShown,
                    taskVars, pruneVars >>

\* update.py 31-36: the metadata read; None ends the run with 0.  The store
\* holds one record per chunk, 1 .. MaxChunks of them under each key.
UpdReadMetas ==
    /\ updPc = "read"
    /\ metaRead' = TRUE
    /\ \/ /\ updPc' = "ret_nometas"
          /\ UNCHANGED files_gen
       \/ /\ updPc' = "diffing"
          /\ \E chunks \in [store -> 1 .. MaxChunks] :
                files_gen' = CollectionGet(store, chunks)
    /\ UNCHANGED << libVars, envVars, mainVars, cancelled, files, orphanes,
                    absentAtCheck, stats, statsShown, taskVars, pruneVars >>

\* update.py 37-41: one iteration of the Diffing loop.
UpdDiffStep ==
    /\ updPc = "diffing"
    /\ files_gen # << >>
    /\ LET file == MetaPath(Head(files_gen))
       IN  /\ IF IsFile(file, disk)
              THEN /\ files' = files \cup {file}
                   /\ UNCHANGED orphanes
              ELSE /\ orphanes' = orphanes \cup {file}
                   /\ UNCHANGED files
           /\ absentAtCheck' = IF file \in disk THEN absentAtCheck
                               ELSE absentAtCheck \cup {file}
    /\ files_gen' = Tail(files_gen)
    /\ UNCHANGED << libVars, envVars, mainVars, updPc, cancelled, metaRead, stats,
                    statsShown, taskVars, pruneVars >>

\* Statistics that count the live files as removed.
InitialStatsCountsFiles(fs, os) == [add |-> 0, update |-> 0, removed |-> Cardinality(fs)]

\* update.py 43: the initial stats.
InitialStats(fs, os) == [add |-> 0, update |-> 0, removed |-> Cardinality(os)]

\* update.py 43-67: stats, the locks, the semaphore and one task per file.
UpdCreateTasks ==
    /\ updPc = "diffing"
    /\ files_gen = << >>
    /\ stats' = InitialStats(files, orphanes)
    /\ \E c \in CpuCounts :
         /\ cpu' = c
         /\ semaphore' = SemaphoreValue(c)
    /\ collection_lock' = NoTask
    /\ tasks' = files
    /\ tpc' = [p \in Paths |-> IF p \in files THEN "waiting" ELSE "none"]
    /\ updPc' = "awaiting"
    /\ UNCHANGED << libVars, envVars, mainVars, cancelled, diffVars, statsShown,
                    upserts, pruneVars >>

\* A pruning step that issues the delete whatever the orphan set holds.
HasOrphanesAlways(os) == TRUE

\* update.py 75: `if len(orphanes):`.
HasOrphanes(os) == Cardinality(os) # 0

\* update.py 75-79 after the loop: the delete is issued, or with no orphan
\* the statistics are shown and update returns 0.
UpdAwaitDone ==
    /\ updPc = "awaiting"
    /\ AwaitLoopDone(tasks, tpc)
    /\ IF HasOrphanes(orphanes)
       THEN /\ updPc' = "deleting"
            /\ deleteCalls' = deleteCalls + 1
            /\ deleteArg' = orphanes
            /\ UNCHANGED statsShown
       ELSE /\ updPc' = "ret_ok"
            /\ statsShown' = statsShown + 1
            /\ UNCHANGED << deleteCalls, deleteArg >>
    /\ UNCHANGED << libVars, envVars, mainVars, cancelled, diffVars, stats, taskVars >>

\* update.py 68-69: `await task` re-raises the exception of a failed task.
UpdAwaitRaise ==
    /\ updPc = "awaiting"
    /\ \E t \in tasks : tpc[t] = "failed"
    /\ updPc' = "raised"
    /\ UNCHANGED << libVars, envVars, mainVars, cancelled, diffVars, stats, statsShown,
                    taskVars, pruneVars >>

\* A handler that swallows CancelledError and goes on to the delete.
OnCancelledGoesOn == "deleting"

\* update.py 71-73: where update() goes on CancelledError.
OnCancelled == "ret_abort"

\* The main coroutine is cancelled while it awaits a task.
UpdAwaitCancelled ==
    /\ updPc = "awaiting"
    /\ tasks # {}
    /\ cancelled' = TRUE
    /\ updPc' = OnCancelled
    /\ UNCHANGED << libVars, envVars, mainVars, diffVars, stats, statsShown, taskVars,
                    pruneVars >>

\* update.py 76-79: the delete returned; show_stats; return 0.
UpdDeleteDone ==
    /\ updPc = "deleting"
    /\ store' = CollectionDelete(store, deleteArg)
    /\ statsShown' = statsShown + 1
    /\ updPc' = "ret_ok"
    /\ UNCHANGED << libVars, disk, collection, created, mainVars, cancelled, diffVars,
                    stats, taskVars, pruneVars >>

\* update.py 76: the delete call raised.
UpdDeleteFail ==
    /\ updPc = "deleting"
    /\ updPc' = "raised"
    /\ UNCHANGED << libVars, envVars, mainVars, cancelled, diffVars, stats, statsShown,
                    taskVars, pruneVars >>

\* ------------------------------------------------------------ chunked_add

\* The event loop runs a task only while the main coroutine is suspended in
\* an await: in the loop over as_completed, in collection.delete, or in
\* server_process.wait().
TaskCanRun ==
    \/ updPc \in {"awaiting", "deleting"}
    \/ mainPc = "wait_server"

\* async with semaphore: the task passes the admission gate.
TaskAdmit(t) ==
    /\ TaskCanRun
    /\ t \in tasks
    /\ tpc[t] = "waiting"
    /\ semaphore > 0
    /\ semaphore' = semaphore - 1
    /\ tpc' = [tpc EXCEPT ![t] = "admitted"]
    /\ UNCHANGED << libVars, envVars, mainVars, updPc, cancelled, diffVars, stats,
                    statsShown, cpu, collection_lock, tasks, upserts,
                    pruneVars >>

\* Reading, chunking or embedding the file raises.
TaskFail(t) ==
    /\ TaskCanRun
    /\ t \in tasks
    /\ tpc[t] = "admitted"
    /\ semaphore' = semaphore + 1
    /\ tpc' = [tpc EXCEPT ![t] = "failed"]
    /\ UNCHANGED << libVars, envVars, mainVars, updPc, cancelled, diffVars, stats,
                    statsShown, cpu, collection_lock, tasks, upserts,
                    pruneVars >>

\* async with collection_lock: the upsert call is sent.
TaskStartWrite(t) ==
    /\ TaskCanRun
    /\ t \in tasks
    /\ tpc[t] = "admitted"
    /\ collection_lock = NoTask
    /\ collection_lock' = t
    /\ tpc' = [tpc EXCEPT ![t] = "writing"]
    /\ UNCHANGED << libVars, envVars, mainVars, updPc, cancelled, diffVars, stats,
                    statsShown, cpu, semaphore, tasks, upserts, pruneVars >>

\* The store committed the upsert of the file's chunks (their ids are keyed
\* by path and index, so the chunks of a stored file are overwritten); the
\* lock and the slot are released and the statistics counted under stats_lock.
TaskFinishWrite(t) ==
    /\ TaskCanRun
    /\ t \in tasks
    /\ tpc[t] = "writing"
    /\ store' = store \cup {t}
    /\ upserts' = upserts \cup {t}
    /\ stats' = IF t \notin store
                THEN [stats EXCEPT !.add = @ + 1]
                ELSE [stats EXCEPT !.update = @ + 1]
    /\ collection_lock' = NoTask
    /\ semaphore' = semaphore + 1
    /\ tpc' = [tpc EXCEPT ![t] = "done"]
    /\ UNCHANGED << libVars, disk, collection, created, mainVars, updPc, cancelled,
                    diffVars, statsShown, cpu, tasks, pruneVars >>

\* The upsert call raises (connectivity or protocol error).
TaskWriteFail(t) ==
    /\ TaskCanRun
    /\ t \in tasks
    /\ tpc[t] = "writing"
    /\ collection_lock' = NoTask
    /\ semaphore' = semaphore + 1
    /\ tpc' = [tpc EXCEPT ![t] = "failed"]
    /\ UNCHANGED << libVars, envVars, mainVars, updPc, cancelled, diffVars, stats,
                    statsShown, cpu, tasks, upserts, pruneVars >>

\* ------------------------------------------------------------------- Next

Next ==
    \/ \E p \in Paths : FsChange(p)
    \/ MainProbe
    \/ MainAfterUpdate
    \/ MainReturn
    \/ UpdGetCollection
    \/ UpdVerifyEf
    \/ UpdReadMetas
    \/ UpdDiffStep
    \/ UpdCreateTasks
    \/ UpdAwaitDone
    \/ UpdAwaitRaise
    \/ UpdAwaitCancelled
    \/ UpdDeleteDone
    \/ UpdDeleteFail
    \/ \E t \in Paths : TaskAdmit(t)
    \/ \E t \in Paths : TaskFail(t)
    \/ \E t \in Paths : TaskStartWrite(t)
    \/ \E t \in Paths : TaskFinishWrite(t)
    \/ \E t \in Paths : TaskWriteFail(t)

Spec == Init /\ [][Next]_vars

\* A run during which no other process touches the file system.
QuietNext ==
    \/ MainProbe
    \/ MainAfterUpdate
    \/ MainReturn
    \/ UpdGetCollection
    \/ UpdVerifyEf
    \/ UpdReadMetas
    \/ UpdDiffStep
    \/ UpdCreateTasks
    \/ UpdAwaitDone
    \/ UpdAwaitRaise
    \/ UpdAwaitCancelled
    \/ UpdDeleteDone
    \/ UpdDeleteFail
    \/ \E t \in Paths : TaskAdmit(t)
    \/ \E t \in Paths : TaskFail(t)
    \/ \E t \in Paths : TaskStartWrite(t)
    \/ \E t \in Paths : TaskFinishWrite(t)
    \/ \E t \in Paths : TaskWriteFail(t)

QuietSpec == Init /\ [][QuietNext]_vars

\* ----------------------------------------------------------------- claims

TaskRunning(t) == t \in tasks /\ tpc[t] \in {"waiting", "admitted", "writing"}
TaskCompleted(t) == t \in tasks /\ tpc[t] = "done"
DeleteInFlight == updPc = "deleting"

\* C1: the bulk delete of the orphaned paths is issued only after every task
\* the run created has completed: while the delete is in flight, and whenever
\* one has been issued, no task of the run is still running.
C1_DeleteAfterTasks ==
    (DeleteInFlight \/ deleteCalls > 0) =>
        \A t \in tasks : TaskCompleted(t) /\ ~TaskRunning(t)

\* A delete is in flight in a run that created two tasks.
C1_Witness == DeleteInFlight /\ Cardinality(tasks) >= 2

\* C2: a collection whose owner metadata does not match the current identity
\* is refused with the collision error by the lookup of update(), and the run
\* issues no upsert and no delete against it.
C2_ForeignRefused ==
    (collection.exists /\ ~OwnerMatches(collection)) =>
        /\ updPc \in {"get_collection", "ret_collision"}
        /\ upserts = {}
        /\ deleteCalls = 0

\* The path strings update() read from the stored metadata.
PathsRead == files \cup orphanes

\* C3 as claimed: the removed count of a completed run is the number of
\* stored paths without a file on disk, and when the delete is issued no
\* path passed to it has a file on disk.
C3_NoDeleteOfExistingFile ==
    /\ DeleteInFlight => \A p \in deleteArg : ~IsFile(p, disk)
    /\ updPc = "ret_ok" =>
          stats.removed = Cardinality({p \in PathsRead : ~IsFile(p, disk)})

\* C3 as amended: the removed count of a completed run is the number of
\* distinct path strings read from the metadata for which an isfile check of
\* the Diffing loop was false, and the delete is passed exactly those paths.
C3_OrphansAsDiffed ==
    /\ updPc = "ret_ok" => stats.removed = Cardinality(absentAtCheck)
    /\ deleteCalls > 0 => deleteArg = absentAtCheck
    /\ updPc = "ret_ok" /\ absentAtCheck # {} => deleteCalls = 1

\* A completed run that removed an orphan at whose path a file existed again
\* when the delete was issued.
C3_Witness ==
    /\ updPc = "ret_ok"
    /\ stats.removed >= 1
    /\ \E p \in deleteArg : IsFile(p, disk)

\* C4: once update() has observed CancelledError while awaiting the tasks it
\* returns non-zero, issues no delete, shows no statistics, and the upserts
\* the store committed stay in the store.
C4_CancelAborts ==
    cancelled =>
        /\ UpdReturned
        /\ UpdateReturn(updPc) # 0
        /\ deleteCalls = 0
        /\ ~DeleteInFlight
        /\ statsShown = 0
        /\ upserts \subseteq store

\* A cancelled run with an orphan to delete, one upsert committed and another
\* task still running.
C4_Witness ==
    /\ cancelled
    /\ orphanes # {}
    /\ upserts # {}
    /\ \E t \in tasks : TaskRunning(t)

\* C5: when the processing of a file raised, async_main ends with a non-zero
\* return value, and the upserts committed by other tasks stay in the store.
C5_FailurePropagates ==
    (\E t \in tasks : tpc[t] = "failed") =>
        /\ mainPc = "returned" => return_val # 0
        /\ upserts \subseteq store
        /\ deleteCalls = 0

\* async_main has returned after update() raised a task's exception, with an
\* upsert of another task committed.
C5_Witness ==
    /\ mainPc = "returned"
    /\ updPc = "raised"
    /\ \E t \in tasks : tpc[t] = "failed"
    /\ upserts # {}

\* C6: when a task failed (and nothing was cancelled) and the run has ended,
\* every other task has run to completion and the run's status is failure.
C6_OthersRunToCompletion ==
    (mainPc = "returned" /\ ~cancelled /\ \E t \in tasks : tpc[t] = "failed") =>
        /\ return_val # 0
        /\ \A t \in tasks : tpc[t] \in {"done", "failed"}

\* C7: once update() has returned on cancellation, no task of the run
\* performs a further upsert.
C7_NoUpsertAfterAbort == [][updPc = "ret_abort" => upserts' = upserts]_vars

\* The store-mutation calls in flight.
WritesInFlight == {t \in tasks : tpc[t] = "writing"}

\* C8: at most one store-mutation call (upsert or delete) is in flight.
C8_OneMutationInFlight ==
    Cardinality(WritesInFlight) + (IF DeleteInFlight THEN 1 ELSE 0) <= 1

\* One task is writing while another, admitted too, waits for the lock.
C8_Witness ==
    \E t, u \in tasks : t # u /\ tpc[t] = "writing" /\ tpc[u] = "admitted"

\* The parallelism degree: the number of processing units, 1 when unknown.
ParallelismDegree == IF cpu = NoCpu THEN 1 ELSE cpu
Admitted == {t \in tasks : tpc[t] \in {"admitted", "writing"}}

\* Task t waits at the admission gate.
Waiting(t) == t \in tasks /\ tpc[t] = "waiting"

\* C9: the tasks admitted past the gate never outnumber the parallelism
\* degree, which is at least 1; every task is created up front, waiting at
\* the gate; and during the run no task waits at the gate forever: whenever
\* tasks are waiting, eventually none of them is (a task that left the gate
\* never returns to it).
C9_BoundedAdmission ==
    /\ [](/\ Cardinality(Admitted) <= ParallelismDegree
          /\ ParallelismDegree >= 1
          /\ updPc = "awaiting" => tasks = files)
    /\ (\E t \in Paths : Waiting(t)) ~>
          ((\A t \in Paths : ~Waiting(t)) \/ UpdEnded)

\* Two files, one slot: one task is admitted and the other waits at the gate.
C9_Witness ==
    /\ updPc = "awaiting"
    /\ ParallelismDegree = 1
    /\ \E t, u \in tasks : tpc[t] \in {"admitted", "writing"} /\ tpc[u] = "waiting"

\* C10: a missing collection, a collision error and an incompatible
\* embedding function end update() with 1 before the metadata is read, a
\* task created or an upsert or delete issued, and no collection is created.
C10_FatalBeforeProcessing ==
    /\ ~created
    /\ updPc \in {"ret_missing", "ret_collision", "ret_ef"} =>
          /\ UpdateReturn(updPc) = 1
          /\ ~metaRead
          /\ tasks = {}
          /\ upserts = {}
          /\ deleteCalls = 0
    /\ (updPc # "get_collection" /\ ~collection.exists) =>
          updPc \in {"ret_missing", "ret_collision"}
    /\ (/\ updPc \notin {"get_collection", "verify_ef"}
        /\ collection.exists
        /\ collection.embedding_function \notin {"None", ConfigEf}) =>
          updPc \in {"ret_ef", "ret_collision"}

\* async_main has returned 1 for a project without a collection.
C10_Witness ==
    /\ mainPc = "returned"
    /\ updPc = "ret_missing"
    /\ return_val = 1

\* C12: a run issues at most one delete call; one is issued only for a
\* non-empty orphan set and is passed exactly that set; a run that returned
\* success issued the call exactly when the orphan set computed in Diffing
\* was non-empty, and its removed count is the size of that set; after
\* Diffing no step, a change of the file system included, alters the orphan
\* set or the paths passed to the delete already issued.
C12_OneDeleteOfDiffedOrphans ==
    /\ [](/\ deleteCalls <= 1
          /\ deleteCalls = 1 => (orphanes # {} /\ deleteArg = orphanes)
          /\ updPc = "ret_ok" =>
                /\ (deleteCalls = 1) <=> (orphanes # {})
                /\ stats.removed = Cardinality(orphanes))
    /\ [][/\ updPc # "diffing" => orphanes' = orphanes
          /\ deleteCalls = 1 => deleteArg' = deleteArg]_vars

\* A run that returned success after one delete call, although the file of a
\* path classified live in Diffing had disappeared by then.
C12_Witness ==
    /\ updPc = "ret_ok"
    /\ deleteCalls = 1
    /\ \E p \in files : ~IsFile(p, disk)

\* The path strings a metadata read of the collection yields now: what the
\* Diffing loop of a following run checks against the disk.
StoredPathsNow == {MetaPath(MetaRecord(k)) : k \in store}

\* C13: after a run that returned success with the file system unchanged,
\* a metadata read shows no record whose path has no file on disk, whatever
\* the record's path field, so that a following run finds no orphan.
C13_NoRecordOfAbsentFile ==
    updPc = "ret_ok" => \A file \in StoredPathsNow : IsFile(file, disk)

\* The Diffing loop has consumed every metadata record it read.
DiffingDone == updPc = "diffing" /\ files_gen = << >>

\* C14: Diffing partitions the stored paths: the live set and the orphan set
\* are disjoint, once Diffing is done their union is exactly the paths read
\* from the store's metadata, and a path is an orphan exactly when no
\* regular file was found at it in Diffing, so no such path is live.
C14_DiffingPartitions ==
    /\ files \cap orphanes = {}
    /\ DiffingDone => files \cup orphanes = StoredPathsNow
    /\ orphanes = absentAtCheck
    /\ files \cap absentAtCheck = {}

\* update() has created its tasks (update.py 53-67).
TasksCreated == updPc \in {"awaiting", "deleting", "ret_ok", "ret_abort", "raised"}

\* C23: update creates exactly one task per distinct path that Diffing found
\* live, however many chunk records share the path, and no task for an
\* orphaned path; when the metadata read returns None, update returns 0 and
\* has created no task and issued no delete.
C23_OneTaskPerLivePath ==
    /\ TasksCreated =>
          /\ tasks = files
          /\ Cardinality(tasks) = Cardinality(files)
          /\ tasks \cap orphanes = {}
    /\ ~TasksCreated => tasks = {}
    /\ updPc = "ret_nometas" =>
          /\ UpdateReturn(updPc) = 0
          /\ tasks = {}
          /\ deleteCalls = 0
          /\ mainPc = "returned" => return_val = 0

\* C16: show_stats is called at most once in a run, and only when every
\* per-file task has finished without error and the orphan delete, if there
\* was an orphan, has been issued and has returned; a run in which update()
\* returned 1 or raised has shown no statistics.
C16_StatsAfterAllWork ==
    /\ statsShown <= 1
    /\ statsShown = 1 =>
          /\ updPc = "ret_ok"
          /\ \A t \in tasks : tpc[t] = "done"
          /\ ~DeleteInFlight
          /\ orphanes # {} => deleteCalls = 1
    /\ (updPc = "raised" \/ (UpdReturned /\ UpdateReturn(updPc) = 1)) =>
          statsShown = 0

\* The statistics were shown after two tasks and the orphan delete.
C16_Witness ==
    /\ statsShown = 1
    /\ Cardinality(tasks) >= 2
    /\ deleteCalls = 1
    /\ stats.removed >= 1

\* ----------------------------------------------------- fair specification

\* A step of task t that the event loop owes it: passing the gate when a
\* slot is free, taking the lock when it is free, the upsert call returning
\* or raising.
TaskStep(t) ==
    \/ TaskAdmit(t)
    \/ TaskStartWrite(t)
    \/ TaskFinishWrite(t)
    \/ TaskWriteFail(t)

\* The event loop runs every task that can take a step.
Fairness == \A t \in Paths : WF_vars(TaskStep(t))

FairSpec == Spec /\ Fairness

\* ------------------------------------------- common.py, function by function

\* Everything update() and async_main own besides the store's collection.
updVars == << mainVars, updPc, cancelled, diffVars, stats, statsShown,
              taskVars, pruneVars >>

\* Collections the store may hold under the computed id: none, or one stamped
\* by any system, user and host, with or without a recorded embedding
\* function and parameters.
StoredCollections ==
    {NoCollection}
    \cup {CollectionMeta(h, u, b, ef, ep) :
            h \in {ThisHost, "otherhost"},
            u \in {ThisUser, "DEFAULT_USER", "other"},
            b \in {"VectorCode", "other"},
            ef \in {"None", ConfigEf, "efB"},
            ep \in {"None", ConfigEp, "epB"}}

\* await get_collection(client, configs, make_if_missing=True).
CallGetCollection ==
    /\ gcResult = "none"
    /\ \E clientFault \in BOOLEAN :
         LET got == GetCollection(collection, TRUE, clientFault)
         IN  /\ collection' = got.coll
             /\ created' = got.created
             /\ gcResult' = got.result
    /\ UNCHANGED << disk, store, updVars, extVars, efVerdict, efWarned, efName,
                    efParams, efBuilt, nameVars, waitVars, globVars >>

\* verify_ef(collection, configs) on the collection the store holds.
CallVerifyEf ==
    /\ efVerdict = "none"
    /\ collection.exists
    /\ efVerdict' = IF VerifyEf(collection) THEN "True" ELSE "False"
    /\ efWarned' = VerifyEfWarns(collection)
    /\ UNCHANGED << envVars, updVars, extVars, gcResult, efName, efParams, efBuilt,
                    nameVars, waitVars, globVars >>

\* Names a configuration may give as embedding_function, and parameters.
EfNames == EfClasses \cup {"FakeEmbeddingFunction", "__name__"}
EfParamSets == {"empty", ConfigEp}

\* get_embedding_function(configs).
CallGetEmbeddingFunction ==
    /\ ~efBuilt.called
    /\ efBuilt' = GetEmbeddingFunction(efName, efParams)
    /\ UNCHANGED << envVars, updVars, extVars, gcResult, efVerdict, efWarned, efName,
                    efParams, nameVars, waitVars, globVars >>

CommonInit ==
    /\ collection \in StoredCollections
    /\ store = {}
    /\ disk = {}
    /\ UpdateIdle
    /\ gcResult = "none"
    /\ efVerdict = "none"
    /\ efWarned = FALSE
    /\ efName \in EfNames
    /\ efParams \in EfParamSets
    /\ efBuilt = NoEf
    /\ NameIdle
    /\ WaitIdle
    /\ GlobIdle
    /\ ExtIdle

CommonNext ==
    \/ CallGetCollection
    \/ CallVerifyEf
    \/ CallGetEmbeddingFunction

CommonSpec == CommonInit /\ [][CommonNext]_vars

\* C11: get_collection with make_if_missing=True returns the collection only
\* when its metadata was stamped by VectorCode, by the current user and on the
\* current host, and raises the collision error (IndexError) whenever one of
\* the three differs.
StampedByCurrentIdentity(meta) ==
    /\ meta.exists
    /\ meta.createdBy = "VectorCode"
    /\ meta.username = ThisUser
    /\ meta.hostname = ThisHost

C11_CollisionOnAnyMismatch ==
    /\ gcResult = "ok" => StampedByCurrentIdentity(collection)
    /\ (gcResult # "none" /\ ~StampedByCurrentIdentity(collection)) =>
          gcResult = "IndexError"

\* The collection records an embedding function name other than the
\* configured one.
RecordsOtherEf(meta) ==
    meta.embedding_function # "None" /\ meta.embedding_function # ConfigEf

\* C15: verify_ef returns False exactly when the collection records an
\* embedding function name that differs from the configured one, and True in
\* every other case: when none is recorded, and when only the recorded
\* parameters differ from the configured ones, where it prints a warning.
C15_VerifyEfVerdict ==
    efVerdict # "none" =>
        /\ efVerdict \in {"True", "False"}
        /\ efVerdict = "False" <=> RecordsOtherEf(collection)
        /\ efWarned => efVerdict = "True"
        /\ (/\ ~RecordsOtherEf(collection)
            /\ collection.embedding_params \notin {"None", ConfigEp}) =>
              efVerdict = "True" /\ efWarned

\* verify_ef accepted, with a warning, a collection that records the
\* configured embedding function with other parameters.
C15_Witness ==
    /\ efVerdict = "True"
    /\ efWarned
    /\ collection.embedding_function = ConfigEf
    /\ collection.embedding_params = "epB"

\* C18: get_embedding_function does not fail on the configured name: a name
\* that is not a known embedding function yields the default Sentence
\* Transformer function with a warning, and a known name yields that
\* function built with the configured parameters.
C18_FallbackOnUnknownName ==
    efBuilt.called =>
        /\ efBuilt.raised = "none"
        /\ IF efName \in EfClasses
           THEN /\ efBuilt.ef = efName
                /\ efBuilt.params = efParams
                /\ ~efBuilt.warned
           ELSE /\ efBuilt.ef = DefaultEf
                /\ efBuilt.warned

\* --------------------------------------------------- get_collection_name

\* get_collection_name(full_path[i]).
CallGetCollectionName(i) ==
    /\ collection_id[i] = NoId
    /\ collection_id' = [collection_id EXCEPT ![i] = GetCollectionName(full_path[i])]
    /\ UNCHANGED << envVars, updVars, extVars, commonVars, full_path, waitVars,
                    globVars >>

NameInit ==
    /\ collection = NoCollection
    /\ store = {}
    /\ disk = {}
    /\ UpdateIdle
    /\ CommonIdle
    /\ full_path \in [1 .. 2 -> PathInputs]
    /\ collection_id = [i \in 1 .. 2 |-> NoId]
    /\ WaitIdle
    /\ GlobIdle
    /\ ExtIdle

NameNext == \E i \in 1 .. 2 : CallGetCollectionName(i)

NameSpec == NameInit /\ [][NameNext]_vars

BothNamed == collection_id[1] # NoId /\ collection_id[2] # NoId

\* C17: get_collection_name returns an id of 63 characters that is a
\* function of the identity and the absolute path: two calls with the same
\* path return the same id, a path and its absolute form return the same
\* id, and paths with different absolute forms return different ids.
C17_NameOfAbsolutePath ==
    /\ \A i \in 1 .. 2 :
          collection_id[i] # NoId => collection_id[i].len = CollectionIdLen
    /\ BothNamed =>
          /\ full_path[1] = full_path[2] => collection_id[1] = collection_id[2]
          /\ full_path[2] = ExpandPath(full_path[1], TRUE) =>
                collection_id[1] = collection_id[2]
          /\ ExpandPath(full_path[1], TRUE) # ExpandPath(full_path[2], TRUE) =>
                collection_id[1] # collection_id[2]

\* Both ids are computed for a relative path that names its parent
\* directory and a variable, and for the absolute form of that path.
C17_Witness ==
    /\ BothNamed
    /\ full_path[1] = [abs |-> FALSE, parts |-> << "..", "$P" >>]
    /\ full_path[2] = ExpandPath(full_path[1], TRUE)
    /\ full_path[2] = [abs |-> TRUE, parts |-> << EnvP >>]

\* -------------------------------------------------------- wait_for_server

\* Time is counted in ticks of 0.1 s: asyncio.sleep(0.1) takes at least one.
SleepTicks == 1

\* A loop that never gives up.
TimedOutNever(elapsed, limit) == FALSE

\* common.py 63: asyncio.get_event_loop().time() - start_time > timeout.
TimedOut(elapsed, limit) == elapsed > limit

\* What a heartbeat request ends with: an answer with a status code, or an
\* httpx.RequestError (a request that gets no answer ends with one when
\* httpx's own timeout expires).
GetOutcomes == {"200", "503", "RequestError"}

\* No run of wait_for_server with these bounds reads a later clock.
ClockCap == start_time + timeout + MaxGetTicks + MaxSleepTicks

\* common.py 56-61: one heartbeat request.
WfsGet ==
    /\ wfsPc = "get"
    /\ \E outcome \in GetOutcomes, d \in 0 .. MaxGetTicks :
         /\ now + d <= ClockCap
         /\ now' = now + d
         /\ status' = outcome
         /\ wfsPc' = IF outcome = "200" THEN "returned" ELSE "check"
    /\ UNCHANGED << envVars, updVars, extVars, commonVars, nameVars, globVars,
                    start_time, timeout >>

\* common.py 63-64: the timeout check after a request that did not succeed.
WfsCheck ==
    /\ wfsPc = "check"
    /\ wfsPc' = IF TimedOut(now - start_time, timeout) THEN "TimeoutError"
                ELSE "sleep"
    /\ UNCHANGED << envVars, updVars, extVars, commonVars, nameVars, globVars, now,
                    start_time, timeout, status >>

\* common.py 66: await asyncio.sleep(0.1).
WfsSleep ==
    /\ wfsPc = "sleep"
    /\ \E d \in SleepTicks .. MaxSleepTicks :
         /\ now + d <= ClockCap
         /\ now' = now + d
    /\ wfsPc' = "get"
    /\ UNCHANGED << envVars, updVars, extVars, commonVars, nameVars, globVars,
                    start_time, timeout, status >>

\* wait_for_server(host, port, timeout) is entered: start_time is read.
WaitInit ==
    /\ collection = NoCollection
    /\ store = {}
    /\ disk = {}
    /\ UpdateIdle
    /\ CommonIdle
    /\ NameIdle
    /\ GlobIdle
    /\ wfsPc = "get"
    /\ now \in 0 .. MaxStart
    /\ start_time = now
    /\ timeout \in 0 .. MaxTimeout
    /\ status = "none"
    /\ ExtIdle

WaitNext == WfsGet \/ WfsCheck \/ WfsSleep

WaitSpec == WaitInit /\ [][WaitNext]_vars

\* The event loop resumes the coroutine when the request or the sleep ends.
WaitFairSpec == WaitSpec /\ WF_vars(WaitNext)

WfsEnded == wfsPc \in {"returned", "TimeoutError"}

\* C19: wait_for_server ends: it returns exactly when a heartbeat request is
\* answered with status 200; it raises TimeoutError only after a request
\* that did not succeed, with more than the timeout elapsed; and after a
\* request error or another status within the timeout it sleeps and polls
\* again.
C19_NoIndefinitePolling ==
    /\ [](/\ wfsPc = "returned" <=> status = "200"
          /\ wfsPc = "TimeoutError" =>
                (status # "200" /\ now - start_time > timeout)
          /\ wfsPc = "sleep" =>
                (status \in {"503", "RequestError"}
                 /\ now - start_time <= timeout))
    /\ <>WfsEnded

\* TimeoutError was raised after a request error, with a timeout that
\* allowed more than one poll.
C19_Witness ==
    /\ wfsPc = "TimeoutError"
    /\ status = "RequestError"
    /\ timeout >= 2
    /\ now - start_time > timeout

\* ----------------------------------------------------------- expand_globs

\* A path relative to the working directory.
Rel(parts) == [abs |-> FALSE, parts |-> parts]

\* The working directory: the directories d and d/e exist; a regular file
\* may exist at f, d/g, d/e/h and at "~" (an entry whose name is a tilde).
Dirs == {Rel(<< "d" >>), Rel(<< "d", "e" >>)}

\* A directory whose name is the two characters s and *.
StarDir == Rel(<< "s*" >>)
FileCandidates ==
    {Rel(<< "f" >>), Rel(<< "d", "g" >>), Rel(<< "d", "e", "h" >>), Rel(<< "~" >>)}

\* What a caller passes: a file, a directory, the tilde entry, glob patterns
\* and a path at which nothing exists.
ArgCandidates ==
    {Rel(<< "f" >>), Rel(<< "d" >>), Rel(<< "~" >>), Rel(<< "*" >>),
     Rel(<< "d", "*" >>), Rel(<< "s*" >>), Rel(<< "x" >>)}

\* os.path.isdir(curr).
IsDir(entry) == entry \in dirs

\* "*" in str(curr).
HasStar(entry) ==
    \E i \in DOMAIN entry.parts : entry.parts[i] \in {"*", "**", "s*"}

\* fnmatch of an entry's name against the last component of a pattern: "*"
\* matches every name of the tree (none starts with a dot), "s*" the names
\* that start with s.
NameMatches(name, pat) == pat = "*" \/ (pat = "s*" /\ name = "s*")

\* os.path.join(curr, "**", "*").
JoinStarStar(entry) ==
    [abs |-> entry.abs, parts |-> entry.parts \o << "**", "*" >>]

\* The paths glob.glob(pattern, recursive=rec) matches, for a pattern that
\* ends in "*" or in "**/*": the entries of the directory before it, and
\* with "**" and rec everything beneath that directory (without rec, "**"
\* stands for one directory level).  d is the set of entries of the tree.
GlobSet(pattern, rec, d) ==
    LET n == Len(pattern.parts)
        deep == n >= 2 /\ pattern.parts[n - 1] = "**"
        dir == SubSeq(pattern.parts, 1, IF deep THEN n - 2 ELSE n - 1)
    IN  {p \in d :
            /\ Len(p.parts) > Len(dir)
            /\ SubSeq(p.parts, 1, Len(dir)) = dir
            /\ NameMatches(p.parts[Len(p.parts)], pattern.parts[n])
            /\ IF deep /\ rec THEN TRUE
               ELSE Len(p.parts) = Len(dir) + (IF deep THEN 2 ELSE 1)}

RECURSIVE SetToSeq(_)
SetToSeq(S) ==
    IF S = {} THEN << >>
    ELSE LET x == CHOOSE y \in S : TRUE IN << x >> \o SetToSeq(S \ {x})

\* glob.glob(pattern, recursive=rec): the matches as a list.
Glob(pattern, rec, d) == SetToSeq(GlobSet(pattern, rec, d))

\* stack.pop(): the last element, and the list without it.
Top(stk) == stk[Len(stk)]
Popped(stk) == SubSeq(stk, 1, Len(stk) - 1)

\* cli_utils.py 388-389: `while stack: curr = stack.pop()`.
EgPop ==
    /\ egPc = "loop"
    /\ stack # << >>
    /\ curr' = Top(stack)
    /\ stack' = Popped(stack)
    /\ egPc' = "branch"
    /\ UNCHANGED << envVars, updVars, extVars, commonVars, nameVars, waitVars,
                    recursive, pathsGiven, dirs, result >>

\* cli_utils.py 390-391: curr is a regular file.
EgAddFile ==
    /\ egPc = "branch"
    /\ IsFile(curr, disk)
    /\ result' = result \cup {ExpandPath(curr, FALSE)}
    /\ egPc' = "loop"
    /\ UNCHANGED << envVars, updVars, extVars, commonVars, nameVars, waitVars,
                    recursive, pathsGiven, dirs, stack, curr >>

\* cli_utils.py 392-393: curr is a glob pattern.
EgGlob ==
    /\ egPc = "branch"
    /\ ~IsFile(curr, disk)
    /\ HasStar(curr)
    /\ stack' = stack \o Glob(curr, recursive, disk \cup dirs)
    /\ egPc' = "loop"
    /\ UNCHANGED << envVars, updVars, extVars, commonVars, nameVars, waitVars,
                    recursive, pathsGiven, dirs, curr, result >>

\* cli_utils.py 394-395: curr is a directory and recursive is set.
EgWalkDir ==
    /\ egPc = "branch"
    /\ ~IsFile(curr, disk)
    /\ ~HasStar(curr)
    /\ IsDir(curr) /\ recursive
    /\ stack' = stack \o Glob(JoinStarStar(curr), recursive, disk \cup dirs)
    /\ egPc' = "loop"
    /\ UNCHANGED << envVars, updVars, extVars, commonVars, nameVars, waitVars,
                    recursive, pathsGiven, dirs, curr, result >>

\* No branch applies: curr is dropped.
EgSkip ==
    /\ egPc = "branch"
    /\ ~IsFile(curr, disk)
    /\ ~HasStar(curr)
    /\ ~(IsDir(curr) /\ recursive)
    /\ egPc' = "loop"
    /\ UNCHANGED << envVars, updVars, extVars, commonVars, nameVars, waitVars,
                    recursive, pathsGiven, dirs, stack, curr, result >>

\* cli_utils.py 396: the stack is empty, list(result) is returned.
EgReturn ==
    /\ egPc = "loop"
    /\ stack = << >>
    /\ egPc' = "returned"
    /\ UNCHANGED << envVars, updVars, extVars, commonVars, nameVars, waitVars,
                    recursive, pathsGiven, dirs, stack, curr, result >>

\* expand_globs(paths, recursive) is entered: result = set(), stack = paths.
GlobInit ==
    /\ collection = NoCollection
    /\ store = {}
    /\ disk \in SUBSET FileCandidates
    /\ UpdateIdle
    /\ CommonIdle
    /\ NameIdle
    /\ WaitIdle
    /\ egPc = "loop"
    /\ recursive \in BOOLEAN
    /\ pathsGiven \in UNION {[1 .. n -> ArgCandidates] : n \in 1 .. MaxArgs}
    /\ dirs \in {Dirs, Dirs \cup {StarDir}}
    /\ stack = pathsGiven
    /\ curr = NoPath
    /\ result = {}
    /\ ExtIdle

GlobNext ==
    \/ EgPop
    \/ EgAddFile
    \/ EgGlob
    \/ EgWalkDir
    \/ EgSkip
    \/ EgReturn

GlobSpec == GlobInit /\ [][GlobNext]_vars

\* The paths given by the caller.
Args == {pathsGiven[i] : i \in DOMAIN pathsGiven}

\* C20: expand_globs honours the recursive flag: with recursive unset a
\* directory given as an argument contributes nothing, so that every path of
\* the result is an argument or a match of a pattern given as an argument;
\* and every path of the result is an existing regular file.
C20_RecursiveFlagAndRegularFiles ==
    egPc = "returned" =>
        /\ \A p \in result : IsFile(p, disk)
        /\ ~recursive =>
              \A p \in result :
                  \/ p \in Args
                  \/ \E a \in Args : HasStar(a) /\ p \in GlobSet(a, FALSE, disk \cup dirs)
        /\ (~recursive /\ Args \subseteq Dirs) => result = {}

\* The event loop resumes the coroutine, so the loop keeps taking steps.
GlobFairSpec == GlobSpec /\ WF_vars(GlobNext)

\* C25: expand_globs terminates for every finite list of arguments over a
\* finite file tree, entries whose name contains "*" included: the stack
\* eventually becomes empty and the function returns.
C25_ExpandGlobsTerminates == <>(stack = << >> /\ egPc = "returned")

\* ------------------------------------ get_collection and the environment

\* Values the variables USER and USERNAME take; "" is a variable that is set
\* and empty.
EnvValues == {Unset, "", "me", "other"}

\* os.environ.get(key, default) for a variable whose value is `value`.
EnvGet(value, default) == IF value = Unset THEN default ELSE value

\* os.environ.get("USER", os.environ.get("USERNAME", "DEFAULT_USER")):
\* the user name of the collection id (common.py 126) and of the stamped
\* metadata (common.py 159).
CurrentUser(user, username) == EnvGet(user, EnvGet(username, "DEFAULT_USER"))

\* An owner check that consults USER only.
AcceptedUsersWithoutUsername(user, username) == {user, "DEFAULT_USER"}

\* (os.environ.get("USER"), os.environ.get("USERNAME"), "DEFAULT_USER").
AcceptedUsers(user, username) == {user, username, "DEFAULT_USER"}

\* The owner check of get_collection (common.py 170-175) under the
\* environment; a metadata without "username" reads as None.
OwnerMatchesEnv(meta, user, username) ==
    /\ meta.hostname = ThisHost
    /\ meta.username \in AcceptedUsers(user, username)
    /\ meta.createdBy = "VectorCode"

\* get_or_create_collection (common.py 165-169) followed by the owner check.
GetOrCreateCollection(coll, user, username) ==
    LET got == IF coll.exists THEN coll
               ELSE CollectionMeta(ThisHost, CurrentUser(user, username),
                                   "VectorCode", ConfigEf, "None")
    IN  [result |-> IF OwnerMatchesEnv(got, user, username) THEN "ok"
                    ELSE "IndexError",
         coll |-> got, created |-> ~coll.exists]

\* The collections the store may hold under the id before the call.
OwnedCollections ==
    {NoCollection}
    \cup {CollectionMeta(host, user, "VectorCode", ConfigEf, "None") :
            host \in {ThisHost, "otherhost"},
            user \in {Unset, "", "me", "other", "DEFAULT_USER"}}

\* get_collection(client, configs, True): common.py 152-179.
OwnGetCollection ==
    /\ ownResult = "none"
    /\ nameUser' = CurrentUser(envUSER, envUSERNAME)
    /\ LET got == GetOrCreateCollection(collection, envUSER, envUSERNAME)
       IN  /\ collection' = got.coll
           /\ created' = got.created
           /\ ownResult' = got.result
    /\ UNCHANGED << disk, store, updVars, commonVars, nameVars, waitVars,
                    globVars, envUSER, envUSERNAME, mergeVars, cliVars,
                    lspVars >>

OwnerInit ==
    /\ collection \in OwnedCollections
    /\ store = {}
    /\ disk = {}
    /\ UpdateIdle
    /\ CommonIdle
    /\ NameIdle
    /\ WaitIdle
    /\ GlobIdle
    /\ envUSER \in EnvValues
    /\ envUSERNAME \in EnvValues
    /\ ownResult = "none"
    /\ nameUser = "none"
    /\ MergeIdle
    /\ CliIdle
    /\ LspIdle

OwnerNext == OwnGetCollection

OwnerSpec == OwnerInit /\ [][OwnerNext]_vars

\* C27: a collection that get_collection has just created passes its own
\* owner check under every setting of USER and USERNAME: the call returns
\* the collection, and the user name stamped into the metadata is the one
\* hashed into the collection id and one the check accepts.
C27_FreshCollectionPassesOwnerCheck ==
    (ownResult # "none" /\ created) =>
        /\ ownResult = "ok"
        /\ collection.username = nameUser
        /\ collection.username \in AcceptedUsers(envUSER, envUSERNAME)
        /\ collection.hostname = ThisHost
        /\ collection.createdBy = "VectorCode"

\* A collection was created with USER unset and USERNAME set.
C27_Witness ==
    /\ ownResult = "ok"
    /\ created
    /\ envUSER = Unset
    /\ envUSERNAME = "other"
    /\ collection.username = "other"

\* ------------------------------------------------------ Config.merge_from

\* Fields of the dataclass Config (cli_utils.py 48-76), one of each kind: a
\* flag, an optional string, a list, and numbers whose default is not zero.
FieldNames == {"pipe", "project_root", "files", "port", "chunk_size"}

\* Config(): the built-in default of each field.  None is written "None".
DefaultConfig ==
    [pipe |-> FALSE, project_root |-> "None", files |-> << >>, port |-> 8000,
     chunk_size |-> -1]

\* Values a field takes, and those among them that Python holds to be false.
FieldValues ==
    [pipe |-> BOOLEAN, project_root |-> {"None", "", "/p"},
     files |-> {<< >>, << "f" >>}, port |-> {0, 8000, 9000},
     chunk_size |-> {-1, 0, 500}]
FalsyValues ==
    [pipe |-> {FALSE}, project_root |-> {"None", ""}, files |-> {<< >>},
     port |-> {0}, chunk_size |-> {0}]

Configs ==
    [pipe : FieldValues.pipe, project_root : FieldValues.project_root,
     files : FieldValues.files, port : FieldValues.port,
     chunk_size : FieldValues.chunk_size]

\* bool(value) for a value of the field.
Truthy(name, value) == value \notin FalsyValues[name]

\* A merge that takes every truthy value of other, its defaults included.
MergedFieldAnyTruthy(name, mine, theirs) ==
    IF ~Truthy(name, theirs) THEN mine ELSE theirs

\* cli_utils.py 115-119: the value of one field of the merged config.
MergedField(name, mine, theirs) ==
    IF ~Truthy(name, theirs) \/ theirs = DefaultConfig[name]
    THEN mine
    ELSE theirs

\* cli_utils.py 110-120: self.merge_from(other).
MergeFrom ==
    /\ final_config = NoConfig
    /\ final_config' =
          [name \in FieldNames |-> MergedField(name, self[name], other[name])]
    /\ UNCHANGED << envVars, updVars, commonVars, nameVars, waitVars, globVars,
                    ownerVars, cliVars, lspVars, self, other >>

MergeInit ==
    /\ collection = NoCollection
    /\ store = {}
    /\ disk = {}
    /\ UpdateIdle
    /\ CommonIdle
    /\ NameIdle
    /\ WaitIdle
    /\ GlobIdle
    /\ OwnerIdle
    /\ CliIdle
    /\ LspIdle
    /\ self \in Configs
    /\ other \in Configs
    /\ final_config = NoConfig

MergeNext == MergeFrom

MergeSpec == MergeInit /\ [][MergeNext]_vars

\* The field of other is set on the command line: its value is neither
\* false nor the built-in default.
GivenByOther(name) ==
    /\ other[name] \notin FalsyValues[name]
    /\ other[name] # DefaultConfig[name]

\* C28: every field of the merged config holds other's value when that value
\* is truthy and differs from the built-in default, and the receiver's
\* value otherwise; the call changes neither the receiver nor the argument.
C28_MergePrefersGivenFields ==
    /\ [](final_config # NoConfig =>
            \A name \in FieldNames :
                /\ GivenByOther(name) => final_config[name] = other[name]
                /\ ~GivenByOther(name) => final_config[name] = self[name])
    /\ [][self' = self /\ other' = other]_vars

\* A merge in which other gives one field, leaves one at its default, holds
\* a false value in a third, and the file sets the last two.
C28_Witness ==
    /\ final_config # NoConfig
    /\ other.port = 9000 /\ self.port = 8000 /\ final_config.port = 9000
    /\ other.chunk_size = -1 /\ self.chunk_size = 500
    /\ final_config.chunk_size = 500
    /\ other.project_root = "" /\ self.project_root = "/p"
    /\ final_config.project_root = "/p"

\* ------------------------------------------ async_main, every subcommand

\* CliAction (cli_utils.py 36-45); the first three are served without a
\* database (main.py 58-65).
LocalActions == {"check", "init", "version"}
ServerActions == {"query", "vectorise", "drop", "ls", "update", "clean"}
CliActions == LocalActions \cup ServerActions

\* What "db_path" holds in a config file: no such key (or null), an existing
\* directory, a path at which there is no directory, and an existing
\* directory written with a leading "~".
DbPaths == {"None", "/db", "/nodir", "~/db"}

\* os.path.isdir(db_path), on the string as the file gives it.
IsDirPath(db_path) == db_path = "/db"

ConfigFiles == {NoFile} \cup {[exists |-> TRUE, db_path |-> d] : d \in DbPaths}

\* An import_from without the fallback for an absent db_path.
ImportRaisesWithoutFallback(config_dict) == ~IsDirPath(config_dict.db_path)

\* Config.import_from(config_dict) raises IOError (cli_utils.py 83-91).
ImportRaises(config_dict) ==
    IF config_dict.db_path = "None" THEN FALSE
    ELSE ~IsDirPath(config_dict.db_path)

\* load_config_file(path) raises IOError: the file exists and import_from
\* refuses it; without the file Config() is returned (cli_utils.py 207-216).
LoadRaises(file) == file.exists /\ ImportRaises(file)

\* main.py 35-51: the config file async_main loads.
MainConfigFile(found, local) ==
    IF found /\ local.exists THEN "project" ELSE "global"

\* main.py 29-56: the arguments are parsed and the configuration is loaded;
\* an IOError ends async_main with 1.
CliLoadConfig ==
    /\ cliPc = "load_config"
    /\ LET source == MainConfigFile(project_dir, projectFile)
           file == IF source = "project" THEN projectFile ELSE globalFile
       IN  /\ configSource' = source
           /\ ioError' = LoadRaises(file)
           /\ IF LoadRaises(file)
              THEN cliPc' = "returned" /\ cliReturn' = "1"
              ELSE cliPc' = "dispatch" /\ UNCHANGED cliReturn
    /\ UNCHANGED << envVars, updVars, commonVars, nameVars, waitVars, globVars,
                    ownerVars, mergeVars, lspVars, project_dir, projectFile,
                    globalFile,
                    action, probed, process, server_process, subcommandRan >>

\* main.py 58-65: check, init and version return without a database.
CliDispatchLocal ==
    /\ cliPc = "dispatch"
    /\ action \in LocalActions
    /\ subcommandRan' = (action # "version")
    /\ \E r \in {"0", "1"} :
         cliReturn' = IF action = "version" THEN "0" ELSE r
    /\ cliPc' = "returned"
    /\ UNCHANGED << envVars, updVars, commonVars, nameVars, waitVars, globVars,
                    ownerVars, mergeVars, lspVars, project_dir, projectFile,
                    globalFile,
                    action, configSource, ioError, probed, process,
                    server_process >>

\* main.py 67-68: try_server; a reachable server is used as it is.
CliProbe ==
    /\ cliPc = "dispatch"
    /\ action \in ServerActions
    /\ probed' = TRUE
    /\ \E reachable \in BOOLEAN :
         cliPc' = IF reachable THEN "subcommand" ELSE "start_server"
    /\ UNCHANGED << envVars, updVars, commonVars, nameVars, waitVars, globVars,
                    ownerVars, mergeVars, lspVars, project_dir, projectFile,
                    globalFile,
                    action, configSource, ioError, process, server_process,
                    subcommandRan, cliReturn >>

\* common.py 69-99: start_server spawns the database process.
CliSpawn ==
    /\ cliPc = "start_server"
    /\ process' = "running"
    /\ cliPc' = "wait_for_server"
    /\ UNCHANGED << envVars, updVars, commonVars, nameVars, waitVars, globVars,
                    ownerVars, mergeVars, lspVars, project_dir, projectFile,
                    globalFile,
                    action, configSource, ioError, probed, server_process,
                    subcommandRan, cliReturn >>

\* common.py 101-102, main.py 73: wait_for_server returned, start_server
\* returns the process and server_process is assigned.
CliServerReady ==
    /\ cliPc = "wait_for_server"
    /\ server_process' = TRUE
    /\ cliPc' = "subcommand"
    /\ UNCHANGED << envVars, updVars, commonVars, nameVars, waitVars, globVars,
                    ownerVars, mergeVars, lspVars, project_dir, projectFile,
                    globalFile,
                    action, configSource, ioError, probed, process,
                    subcommandRan, cliReturn >>

\* common.py 101, 64: wait_for_server raises TimeoutError; it propagates out
\* of start_server and, main.py 73 being outside any try, out of async_main.
CliServerTimeout ==
    /\ cliPc = "wait_for_server"
    /\ cliPc' = "raised"
    /\ cliReturn' = "TimeoutError"
    /\ UNCHANGED << envVars, updVars, commonVars, nameVars, waitVars, globVars,
                    ownerVars, mergeVars, lspVars, project_dir, projectFile,
                    globalFile,
                    action, configSource, ioError, probed, process,
                    server_process, subcommandRan >>

\* return_val of main.py 80-97 for a subcommand that returned 0 or 1 or
\* raised an Exception.
SubcommandOutcomes == {"0", "1", "Exception"}
ReturnVal(outcome) == IF outcome = "Exception" THEN "1" ELSE outcome

\* main.py 80-102: the subcommand runs; in the finally block a process held
\* in server_process is terminated, otherwise async_main returns.
CliSubcommand ==
    /\ cliPc = "subcommand"
    /\ subcommandRan' = TRUE
    /\ \E outcome \in SubcommandOutcomes : cliReturn' = ReturnVal(outcome)
    /\ IF server_process
       THEN /\ process' = "terminated"
            /\ cliPc' = "wait_exit"
       ELSE /\ cliPc' = "returned"
            /\ UNCHANGED process
    /\ UNCHANGED << envVars, updVars, commonVars, nameVars, waitVars, globVars,
                    ownerVars, mergeVars, lspVars, project_dir, projectFile,
                    globalFile,
                    action, configSource, ioError, probed, server_process >>

\* main.py 101-102: server_process.wait() returns, async_main returns.
CliWaitExit ==
    /\ cliPc = "wait_exit"
    /\ process' = "reaped"
    /\ cliPc' = "returned"
    /\ UNCHANGED << envVars, updVars, commonVars, nameVars, waitVars, globVars,
                    ownerVars, mergeVars, lspVars, project_dir, projectFile,
                    globalFile,
                    action, configSource, ioError, probed, server_process,
                    subcommandRan, cliReturn >>

\* async_main is entered: the file system holds or lacks each config file,
\* and a project-local config file lies in a project directory.
CliInit ==
    /\ collection = NoCollection
    /\ store = {}
    /\ disk = {}
    /\ UpdateIdle
    /\ CommonIdle
    /\ NameIdle
    /\ WaitIdle
    /\ GlobIdle
    /\ OwnerIdle
    /\ MergeIdle
    /\ LspIdle
    /\ cliPc = "load_config"
    /\ project_dir \in BOOLEAN
    /\ projectFile \in ConfigFiles
    /\ projectFile.exists => project_dir
    /\ globalFile \in ConfigFiles
    /\ action \in CliActions
    /\ configSource = "none"
    /\ ioError = FALSE
    /\ probed = FALSE
    /\ process = "none"
    /\ server_process = FALSE
    /\ subcommandRan = FALSE
    /\ cliReturn = "none"

CliNext ==
    \/ CliLoadConfig
    \/ CliDispatchLocal
    \/ CliProbe
    \/ CliSpawn
    \/ CliServerReady
    \/ CliServerTimeout
    \/ CliSubcommand
    \/ CliWaitExit

CliSpec == CliInit /\ [][CliNext]_vars

\* The file async_main reads its configuration from.
SelectedFile == IF configSource = "project" THEN projectFile ELSE globalFile

\* C21: Config.import_from raises IOError exactly when the file it reads
\* configures a db_path that is not an existing directory (without db_path
\* the default location is used and nothing is raised); on that IOError
\* async_main returns 1, having neither probed nor started a database
\* server nor run any subcommand.
C21_InvalidDbPathEndsWithOne ==
    /\ cliPc # "load_config" =>
          (ioError <=> /\ SelectedFile.exists
                       /\ SelectedFile.db_path # "None"
                       /\ ~IsDirPath(SelectedFile.db_path))
    /\ ioError =>
          /\ cliPc = "returned"
          /\ cliReturn = "1"
          /\ ~probed
          /\ process = "none"
          /\ ~subcommandRan

\* The project-local file configures a db_path that is no directory, and
\* async_main has returned 1.
C21_Witness ==
    /\ ioError
    /\ configSource = "project"
    /\ projectFile.db_path = "/nodir"
    /\ action = "update"
    /\ cliReturn = "1"

\* async_main has returned or raised.
CliEnded == cliPc \in {"returned", "raised"}

\* C24: every database server process async_main spawned has been
\* terminated and waited for when async_main returns or raises, whether the
\* subcommand succeeded, returned failure or raised, or the spawned server
\* did not become ready in time; with a reachable server no process is
\* spawned and none is terminated.
C24_SpawnedServerReaped ==
    /\ CliEnded => process \in {"none", "reaped"}
    /\ process # "none" => probed
    /\ (cliPc = "subcommand" /\ ~server_process) => process = "none"

\* ------------------------------------------------- the LSP server's caches

Cmds == 1 .. MaxCmds
Roots == {"/r1", "/r2"}
Servers == {"s1", "s2"}

\* dict.get(key) of a key the cache does not hold: None.
NoEntry == [by |-> 0]

\* lsp_main.py 42-44: the path make_caches passes to load_config_file; None
\* stands for the global config.
LspConfigFile(local) == IF local.exists THEN "global" ELSE "project"

\* load_config_file(path) (cli_utils.py 207-216): the file at the path when
\* there is one, otherwise Config().
LoadConfigFile(file, local, global) ==
    CASE file = "project" -> IF local.exists THEN "project" ELSE "Config()"
      [] file = "global" -> IF global.exists THEN "global" ELSE "Config()"

\* The config file of a root, as a file of the file system.
LocalFile(root) == [exists |-> root \in localConfigs, db_path |-> "None"]
GlobalFile == [exists |-> globalConfig, db_path |-> "None"]

\* lsp_main.py 41-47: the config of the root, loaded unless cached.  Nothing
\* in load_config_file suspends, so the test and the store are one step.
CachedConfigs(root, c) ==
    IF cached_project_configs[root] = NoEntry
    THEN [cached_project_configs EXCEPT ![root] =
            [by |-> c, file |-> LspConfigFile(LocalFile(root)),
             loaded |-> LoadConfigFile(LspConfigFile(LocalFile(root)),
                                       LocalFile(root), GlobalFile)]]
    ELSE cached_project_configs

\* lsp_main.py 56: after the client, the collection is awaited unless cached.
AfterClient(root) ==
    IF cached_collections[root] = NoEntry THEN "get_collection" ELSE "query"

\* lsp_main.py 92-106, 39-49: a command arrives; its root is resolved, the
\* config is cached, and make_caches suspends in try_server.
LspReceive(c) ==
    /\ cmdPc[c] = "idle"
    /\ \E arg \in Roots \cup {"None"} :
         IF arg = "None" /\ DEFAULT_PROJECT_ROOT = "None"
         THEN /\ cmdPc' = [cmdPc EXCEPT ![c] = "AssertionError"]
              /\ UNCHANGED << cached_project_configs, DEFAULT_PROJECT_ROOT,
                              cmdRoot, configLoads >>
         ELSE LET root == IF arg = "None" THEN DEFAULT_PROJECT_ROOT ELSE arg
              IN  /\ DEFAULT_PROJECT_ROOT' =
                        IF DEFAULT_PROJECT_ROOT = "None" THEN arg
                        ELSE DEFAULT_PROJECT_ROOT
                  /\ cmdRoot' = [cmdRoot EXCEPT ![c] = root]
                  /\ cached_project_configs' = CachedConfigs(root, c)
                  /\ configLoads' =
                        IF cached_project_configs[root] = NoEntry
                        THEN [configLoads EXCEPT ![root] = @ + 1]
                        ELSE configLoads
                  /\ cmdPc' = [cmdPc EXCEPT ![c] = "try_server"]
    /\ UNCHANGED << envVars, updVars, commonVars, nameVars, waitVars, globVars,
                    ownerVars, mergeVars, cliVars, cached_clients,
                    cached_collections, localConfigs, globalConfig, serverOf,
                    clientsCreated, collectionsObtained >>

\* lsp_main.py 49-56: try_server answers; without a server the command
\* fails, otherwise the client is awaited unless cached.
LspTryServerDone(c) ==
    /\ cmdPc[c] = "try_server"
    /\ \E reachable \in BOOLEAN :
         cmdPc' = [cmdPc EXCEPT ![c] =
                     IF ~reachable THEN "ConnectionError"
                     ELSE IF cached_clients[serverOf[cmdRoot[c]]] = NoEntry
                     THEN "get_client"
                     ELSE AfterClient(cmdRoot[c])]
    /\ UNCHANGED << envVars, updVars, commonVars, nameVars, waitVars, globVars,
                    ownerVars, mergeVars, cliVars, cached_project_configs,
                    cached_clients, cached_collections, DEFAULT_PROJECT_ROOT,
                    localConfigs, globalConfig, serverOf, cmdRoot, configLoads,
                    clientsCreated, collectionsObtained >>

\* lsp_main.py 54-56: get_client returns and the client is stored.
LspGetClientDone(c) ==
    /\ cmdPc[c] = "get_client"
    /\ cached_clients' =
          [cached_clients EXCEPT ![serverOf[cmdRoot[c]]] = [by |-> c]]
    /\ clientsCreated' =
          [clientsCreated EXCEPT ![serverOf[cmdRoot[c]]] = @ + 1]
    /\ cmdPc' = [cmdPc EXCEPT ![c] = AfterClient(cmdRoot[c])]
    /\ UNCHANGED << envVars, updVars, commonVars, nameVars, waitVars, globVars,
                    ownerVars, mergeVars, cliVars, cached_project_configs,
                    cached_collections, DEFAULT_PROJECT_ROOT, localConfigs,
                    globalConfig, serverOf, cmdRoot, configLoads,
                    collectionsObtained >>

\* lsp_main.py 57: get_collection returns and the collection is stored, or
\* it raises and nothing is stored.
LspGetCollectionDone(c) ==
    /\ cmdPc[c] = "get_collection"
    /\ \/ /\ cached_collections' =
                [cached_collections EXCEPT ![cmdRoot[c]] = [by |-> c]]
          /\ collectionsObtained' =
                [collectionsObtained EXCEPT ![cmdRoot[c]] = @ + 1]
          /\ cmdPc' = [cmdPc EXCEPT ![c] = "query"]
       \/ /\ cmdPc' = [cmdPc EXCEPT ![c] = "IndexError"]
          /\ UNCHANGED << cached_collections, collectionsObtained >>
    /\ UNCHANGED << envVars, updVars, commonVars, nameVars, waitVars, globVars,
                    ownerVars, mergeVars, cliVars, cached_project_configs,
                    cached_clients, DEFAULT_PROJECT_ROOT, localConfigs,
                    globalConfig, serverOf, cmdRoot, configLoads,
                    clientsCreated >>

\* lsp_main.py 107-143: the command is served from the cached collection.
LspServe(c) ==
    /\ cmdPc[c] = "query"
    /\ cmdPc' = [cmdPc EXCEPT ![c] = "done"]
    /\ UNCHANGED << envVars, updVars, commonVars, nameVars, waitVars, globVars,
                    ownerVars, mergeVars, cliVars, cached_project_configs,
                    cached_clients, cached_collections, DEFAULT_PROJECT_ROOT,
                    localConfigs, globalConfig, serverOf, cmdRoot, configLoads,
                    clientsCreated, collectionsObtained >>

\* lsp_start has run (lsp_main.py 32-36, 74-89): the caches are empty.
LspInit ==
    /\ collection = NoCollection
    /\ store = {}
    /\ disk = {}
    /\ UpdateIdle
    /\ CommonIdle
    /\ NameIdle
    /\ WaitIdle
    /\ GlobIdle
    /\ OwnerIdle
    /\ MergeIdle
    /\ CliIdle
    /\ cached_project_configs = [r \in Roots |-> NoEntry]
    /\ cached_clients = [s \in Servers |-> NoEntry]
    /\ cached_collections = [r \in Roots |-> NoEntry]
    /\ DEFAULT_PROJECT_ROOT \in {"None", "/r1"}
    /\ localConfigs \in SUBSET Roots
    /\ globalConfig \in BOOLEAN
    /\ serverOf \in {[r \in Roots |-> "s1"],
                     [r \in Roots |-> IF r = "/r1" THEN "s1" ELSE "s2"]}
    /\ cmdPc = [c \in Cmds |-> "idle"]
    /\ cmdRoot = [c \in Cmds |-> "None"]
    /\ configLoads = [r \in Roots |-> 0]
    /\ clientsCreated = [s \in Servers |-> 0]
    /\ collectionsObtained = [r \in Roots |-> 0]

LspNext ==
    \E c \in Cmds :
        \/ LspReceive(c)
        \/ LspTryServerDone(c)
        \/ LspGetClientDone(c)
        \/ LspGetCollectionDone(c)
        \/ LspServe(c)

LspSpec == LspInit /\ [][LspNext]_vars

\* An entry held by a cache stays as it is.
Kept(cache) ==
    \A k \in DOMAIN cache : cache[k] # NoEntry => cache'[k] = cache[k]

\* C22: under any interleaving of concurrent commands, an entry stored in
\* cached_project_configs, cached_clients or cached_collections is never
\* removed or replaced: for each project root the config is loaded at most
\* once and the collection is obtained at most once, and for each
\* (host, port) at most one client is created.
C22_CachesFilledOnce ==
    [][/\ Kept(cached_project_configs)
       /\ Kept(cached_clients)
       /\ Kept(cached_collections)
       /\ \A r \in Roots : configLoads'[r] <= 1
       /\ \A r \in Roots : collectionsObtained'[r] <= 1
       /\ \A s \in Servers : clientsCreated'[s] <= 1]_vars

\* C26: the LSP server selects the config file the CLI selects for the same
\* project root: the project-local .vectorcode/config.json when that file
\* exists, the global config when it does not.
C26_SameConfigFileAsCli ==
    \A r \in Roots :
        cached_project_configs[r] # NoEntry =>
            \A found \in BOOLEAN :
                (LocalFile(r).exists => found) =>
                    cached_project_configs[r].file =
                        MainConfigFile(found, LocalFile(r))

====
